---- MODULE Spec2Model ----
(***************************************************************************)
(* Model of ai_image_sorter.py: the main loop that classifies every image  *)
(* of the input folder through a remote model and moves it into a folder   *)
(* of the output directory, and the functions it is built from.            *)
(*                                                                         *)
(* Text is a sequence of tokens: ":" , " " (whitespace) or a word (a       *)
(* maximal run of other characters), so that strip, startswith and         *)
(* split(":", 1) are computed on it as Python computes them on strings.    *)
(* A file name is a text.  The output tree is a function from paths        *)
(* (sequences of names below the output root) to nodes.                    *)
(***************************************************************************)
EXTENDS Integers, Sequences, FiniteSets, TLC

VARIABLES
    apiKey,       \* OPENROUTER_API_KEY is set
    inDir,        \* input folder: name -> "absent" | "file" | "locked"
    out,          \* output tree: path below the output root -> node
    pc,           \* position of main (or "fn" when functions are called directly)
    image_files,  \* main's list returned by get_image_files
    idx,          \* index in image_files of the image of the current iteration
    calls,        \* history: send_to_openrouter invocations per image
    creations,    \* history: create_new_folder invocations made by main per image
    resolved,     \* history: process_model_response invocations per image
    moves,        \* history: move_image_to_folder calls that returned True per image
    first,        \* history: per image, how the first reply was handled
    prompt,       \* history: folder list embedded in the last prompt built
    made,         \* history: folder names this run reported as created
    last,         \* history: the last function call, its arguments and result
    ncalls        \* number of direct function calls made

vars == <<apiKey, inDir, out, pc, image_files, idx, calls, creations, resolved,
          moves, first, prompt, made, last, ncalls>>

-----------------------------------------------------------------------------
(* Bounds *)

MaxImages == 2
MaxPad == 1
MaxCalls == 2

-----------------------------------------------------------------------------
(* Text *)

SP == " "
COLON == ":"

RECURSIVE lstrip(_)
lstrip(s) == IF s # <<>> /\ Head(s) = SP THEN lstrip(Tail(s)) ELSE s

RECURSIVE rstrip(_)
rstrip(s) ==
    IF s # <<>> /\ s[Len(s)] = SP THEN rstrip(SubSeq(s, 1, Len(s) - 1)) ELSE s

\* str.strip()
strip(s) == rstrip(lstrip(s))

\* response.startswith("create_folder:")
startswith_create_folder(s) ==
    Len(s) >= 2 /\ s[1] = "create_folder" /\ s[2] = COLON

\* ":" in response
has_colon(s) == \E i \in 1..Len(s) : s[i] = COLON

RECURSIVE find_colon(_, _)
find_colon(s, i) ==
    IF i > Len(s) THEN 0 ELSE IF s[i] = COLON THEN i ELSE find_colon(s, i + 1)

RECURSIVE rfind_colon(_, _)
rfind_colon(s, i) ==
    IF i < 1 THEN 0 ELSE IF s[i] = COLON THEN i ELSE rfind_colon(s, i - 1)

\* response.rsplit(":", 1): the split at the last colon
rsplit_colon(s) ==
    LET k == rfind_colon(s, Len(s)) IN
    IF k = 0 THEN <<s>>
    ELSE <<SubSeq(s, 1, k - 1), SubSeq(s, k + 1, Len(s))>>

\* response.split(":", 1): the split at the first colon
split_colon(s) ==
    LET k == find_colon(s, 1) IN
    IF k = 0 THEN <<s>>
    ELSE <<SubSeq(s, 1, k - 1), SubSeq(s, k + 1, Len(s))>>

-----------------------------------------------------------------------------
(* Names and the file system *)

ImageNames == <<"a.png", "b.png", "c.png", "d.png">>

\* the names of the image entries the input folder may hold
Images == {<<ImageNames[i]>> : i \in 1..MaxImages}

\* an entry of the input folder that is no image
NOTES == <<"notes.txt">>

\* file.lower() cut down to the text after the last dot of the name
lower_suffix(name) == IF name = NOTES THEN "txt" ELSE "png"

image_extensions == {"png", "jpg", "jpeg", "gif", "bmp", "tiff", "webp"}

ROOT == <<>>

DirNode == [kind |-> "dir", data |-> ""]
FileNode(c) == [kind |-> "file", data |-> c]

\* content of the image N of the input folder
ImageData(N) == N[1]

\* os.path.join(path, name); joining an empty name yields the path itself
join(path, name) == IF name = <<>> THEN path ELSE Append(path, name)

\* os.path.exists
exists(o, p) == p = ROOT \/ p \in DOMAIN o

\* os.path.isdir
isdir(o, p) == p = ROOT \/ (p \in DOMAIN o /\ o[p].kind = "dir")

parent(p) == SubSeq(p, 1, Len(p) - 1)

put(o, p, node) == [q \in DOMAIN o \cup {p} |-> IF q = p THEN node ELSE o[q]]

\* os.makedirs(p, exist_ok=True) raises
RECURSIVE makedirs_raises(_, _)
makedirs_raises(o, p) ==
    IF exists(o, p) THEN ~isdir(o, p) ELSE makedirs_raises(o, parent(p))

\* the tree after os.makedirs(p, exist_ok=True) returned
RECURSIVE makedirs(_, _)
makedirs(o, p) ==
    IF exists(o, p) THEN o ELSE put(makedirs(o, parent(p)), p, DirNode)

-----------------------------------------------------------------------------
(* The functions of the program *)

\* get_image_files: the entries of the input folder with an image extension
get_image_files(ind) ==
    {n \in DOMAIN ind : ind[n] # "absent" /\ lower_suffix(n) \in image_extensions}

\* encode_image_to_base64 raises: open(image_path, "rb") fails
encode_raises(ind, N) == ind[N] # "file"

\* get_available_folders: the names of the directories of the output root
get_available_folders(o) ==
    {p[1] : p \in {q \in DOMAIN o : Len(q) = 1 /\ o[q].kind = "dir"}}

DefaultFolders == {<<"cats">>, <<"dogs">>}

\* the folder list of the prompt send_to_openrouter builds
folder_list(o) ==
    IF get_available_folders(o) # {} THEN get_available_folders(o) ELSE DefaultFolders

\* a response of send_to_openrouter: None, or a string
None == [none |-> TRUE, text |-> <<>>]
Str(t) == [none |-> FALSE, text |-> t]

\* what the HTTP call and the decoding of its body can yield
Failure == [ok |-> FALSE, content |-> <<>>]
Content(t) == [ok |-> TRUE, content |-> t]

\* the value send_to_openrouter returns for an outcome of the HTTP call
api_response(outcome) ==
    IF outcome.ok THEN Str(strip(outcome.content)) ELSE None

\* Python's truth value of a response
truthy(r) == ~r.none /\ r.text # <<>>

\* the input folder after a copy: the source stays
source_kept(ind, N) == ind

\* the input folder after shutil.move took the source away
source_moved(ind, N) == [ind EXCEPT ![N] = "absent"]

\* shutil.move(source_path, dst) for the entry N of the input folder
shutil_move(ind, o, N, dst) ==
    LET real_dst == IF isdir(o, dst) THEN Append(dst, N) ELSE dst IN
    IF isdir(o, dst) /\ exists(o, real_dst)
    THEN [raised |-> TRUE, inDir |-> ind, out |-> o]
    ELSE IF ~isdir(o, parent(real_dst))
    THEN [raised |-> TRUE, inDir |-> ind, out |-> o]
    ELSE [raised |-> FALSE, inDir |-> source_moved(ind, N),
          out |-> put(o, real_dst, FileNode(ImageData(N)))]

\* create_new_folder with makedirs called without exist_ok
create_new_folder_strict(folder_name, o) ==
    LET folder_path == join(ROOT, folder_name) IN
    IF exists(o, folder_path) \/ makedirs_raises(o, folder_path)
    THEN [ret |-> FALSE, out |-> o]
    ELSE [ret |-> TRUE, out |-> makedirs(o, folder_path)]

create_new_folder(folder_name, o) ==
    LET folder_path == join(ROOT, folder_name) IN
    IF makedirs_raises(o, folder_path)
    THEN [ret |-> FALSE, out |-> o]
    ELSE [ret |-> TRUE, out |-> makedirs(o, folder_path)]

\* move_image_to_folder creating the destination folder before it looks for
\* the source
move_image_to_folder_eager(image_name, folder_name, ind, o) ==
    LET folder_path == join(ROOT, folder_name)
        destination_path == join(folder_path, image_name)
        o1 == IF makedirs_raises(o, folder_path) THEN o ELSE makedirs(o, folder_path)
    IN
    IF makedirs_raises(o, folder_path) \/ ind[image_name] = "absent"
    THEN [ret |-> FALSE, inDir |-> ind, out |-> o1, created |-> FALSE]
    ELSE LET m == shutil_move(ind, o1, image_name, destination_path) IN
         [ret |-> ~m.raised, inDir |-> m.inDir, out |-> m.out,
          created |-> ~exists(o, folder_path)]

\* move_image_to_folder; created: the destination folder was made on demand
move_image_to_folder(image_name, folder_name, ind, o) ==
    LET folder_path == join(ROOT, folder_name)
        destination_path == join(folder_path, image_name)
    IN
    IF ind[image_name] = "absent"
    THEN [ret |-> FALSE, inDir |-> ind, out |-> o, created |-> FALSE]
    ELSE IF ~exists(o, folder_path) /\ makedirs_raises(o, folder_path)
    THEN [ret |-> FALSE, inDir |-> ind, out |-> o, created |-> FALSE]
    ELSE LET o1 == makedirs(o, folder_path)
             m == shutil_move(ind, o1, image_name, destination_path) IN
         [ret |-> ~m.raised, inDir |-> m.inDir, out |-> m.out,
          created |-> ~exists(o, folder_path)]

\* the folder a reply names when it is split at its last colon
destination_folder_last(image_name, response) ==
    IF has_colon(response)
    THEN strip(rsplit_colon(response)[2])
    ELSE strip(response)

\* the folder process_model_response moves the image to, for a reply that is
\* no create_folder command
destination_folder(image_name, response) ==
    IF has_colon(response)
    THEN LET parts == split_colon(response) IN
         IF Len(parts) = 2 /\ strip(parts[1]) = image_name
         THEN strip(parts[2])
         ELSE IF Len(parts) = 2 THEN strip(parts[2]) ELSE strip(response)
    ELSE strip(response)

\* the folder a create_folder command names
requested_folder(response) == strip(split_colon(response)[2])

\* process_model_response; op: what it did, folder: the name it derived
process_model_response(image_name, response, ind, o) ==
    IF response = <<>>
    THEN [ret |-> FALSE, inDir |-> ind, out |-> o, op |-> "none",
          folder |-> <<>>, created |-> FALSE]
    ELSE IF startswith_create_folder(response)
    THEN LET c == create_new_folder(requested_folder(response), o) IN
         [ret |-> c.ret, inDir |-> ind, out |-> c.out, op |-> "create",
          folder |-> requested_folder(response), created |-> c.ret]
    ELSE LET f == destination_folder(image_name, response)
             m == move_image_to_folder(image_name, f, ind, o) IN
         [ret |-> m.ret, inDir |-> m.inDir, out |-> m.out, op |-> "move",
          folder |-> f, created |-> m.created]

-----------------------------------------------------------------------------
(* Inputs: the replies of the model, the names asked for, the initial trees *)

RECURSIVE Pad(_)
Pad(k) == IF k = 0 THEN <<>> ELSE <<SP>> \o Pad(k - 1)

Lefts == {<<>>, <<"create_folder">>, <<"other">>, <<"a.png">>}
Rights == {<<>>, <<"cats">>, <<"a.png">>, <<"cats", COLON, "dogs">>}
Bare == {<<>>, <<"cats">>, <<"a.png">>}

\* the amounts of whitespace before a reply, before and after its colon, and
\* after the reply
Pads ==
    {p \in (0..MaxPad) \X (0..MaxPad) \X (0..MaxPad) \X (0..MaxPad) :
        p[1] + p[2] + p[3] + p[4] <= MaxPad}

\* the replies "left:right" and the bare replies, with whitespace added
Replies(lefts, rights) ==
    {Pad(p[1]) \o l \o Pad(p[2]) \o <<COLON>> \o Pad(p[3]) \o r \o Pad(p[4]) :
        <<p, l, r>> \in Pads \X lefts \X rights}
    \cup {Pad(p[1]) \o b \o Pad(p[4]) : <<p, b>> \in Pads \X Bare}

\* the replies process_model_response is called with directly
RawReplies == Replies(Lefts, Rights)

\* what the completion endpoint may answer to main
ApiOutcomes ==
    {Failure} \cup
    {Content(t) : t \in Replies(Lefts \ {<<"other">>}, Rights \ {<<"cats", COLON, "dogs">>})}

FolderNames == Rights

CATS == <<"cats">>
APNG == <<"a.png">>
OLD == FileNode("old")

\* the output trees a run may start from: empty, one folder, a folder holding
\* a file of an earlier run, a regular file in the root
InitialTrees ==
    { <<>>,
      (<<CATS>> :> DirNode),
      (<<CATS>> :> DirNode) @@ (<<CATS, APNG>> :> OLD),
      (<<CATS>> :> OLD) }

\* the output trees the functions are called on: those, and a directory where
\* an image would land, a folder and a file named as an image
FnTrees ==
    InitialTrees \cup
    { (<<CATS>> :> DirNode) @@ (<<CATS, APNG>> :> DirNode),
      (<<APNG>> :> DirNode),
      (<<APNG>> :> OLD) }

InputFolders ==
    {ind \in [Images \cup {NOTES} -> {"absent", "file", "locked"}] :
        ind[NOTES] = "file"}

\* the orders os.listdir may list a set of names in
Listings(S) ==
    {q \in [1..Cardinality(S) -> S] : \A n \in S : \E i \in DOMAIN q : q[i] = n}

NoCall == [op |-> "none", img |-> <<>>, folder |-> <<>>, ret |-> FALSE,
           reply |-> <<>>, src |-> FALSE, cmd |-> FALSE]

InitCommon ==
    /\ inDir \in InputFolders
    /\ image_files = <<>>
    /\ idx = 0
    /\ calls = [n \in Images |-> 0]
    /\ creations = [n \in Images |-> 0]
    /\ resolved = [n \in Images |-> 0]
    /\ moves = [n \in Images |-> 0]
    /\ first = [n \in Images |-> "none"]
    /\ prompt = {}
    /\ made = {}
    /\ last = NoCall
    /\ ncalls = 0

-----------------------------------------------------------------------------
(* main *)

Init ==
    /\ InitCommon
    /\ out \in InitialTrees
    /\ apiKey \in BOOLEAN
    /\ pc = "start"

\* main up to the loop: the credential check and the scan of the input folder
Start ==
    /\ pc = "start"
    /\ IF ~apiKey
       THEN pc' = "nokey" /\ UNCHANGED <<image_files, idx>>
       ELSE IF get_image_files(inDir) = {}
       THEN pc' = "noimages" /\ UNCHANGED <<image_files, idx>>
       ELSE /\ image_files' \in Listings(get_image_files(inDir))
            /\ idx' = 1
            /\ pc' = "loop"
    /\ UNCHANGED <<apiKey, inDir, out, calls, creations, resolved, moves, first,
                   prompt, made, last, ncalls>>

\* the history of a call of process_model_response made by main
Resolve(N, r, cmd) ==
    /\ inDir' = r.inDir
    /\ out' = r.out
    /\ resolved' = [resolved EXCEPT ![N] = @ + 1]
    /\ moves' = [moves EXCEPT ![N] = @ + (IF r.op = "move" /\ r.ret THEN 1 ELSE 0)]
    /\ made' = IF r.created THEN made \cup {r.folder} ELSE made
    /\ last' = [op |-> r.op, img |-> N, folder |-> r.folder, ret |-> r.ret,
                reply |-> <<>>, src |-> TRUE, cmd |-> cmd]

\* main asks again whether or not the folder was created
asks_again_always(response, created) == TRUE

\* main asks again after a folder was created

asks_again(response, created) == created

\* main hands every second reply that is not empty to process_model_response
second_reply_accepted_any(response) == truthy(response)

\* main hands the second reply to process_model_response
second_reply_accepted(response) ==
    truthy(response) /\ ~startswith_create_folder(response.text)

\* one iteration of the loop up to the end of the handling of the first reply
FirstQuery ==
    /\ pc = "loop"
    /\ idx <= Len(image_files)
    /\ LET N == image_files[idx] IN
       /\ calls' = [calls EXCEPT ![N] = @ + 1]
       /\ IF encode_raises(inDir, N)
          THEN /\ pc' = "aborted"
               /\ UNCHANGED <<inDir, out, idx, creations, resolved, moves, first,
                              prompt, made, last>>
          ELSE /\ prompt' = folder_list(out)
               /\ \E outcome \in ApiOutcomes :
                    LET response == api_response(outcome) IN
                    IF ~truthy(response)
                    THEN /\ first' = [first EXCEPT ![N] = "failed"]
                         /\ last' = [NoCall EXCEPT !.op = "failed", !.img = N]
                         /\ idx' = idx + 1
                         /\ pc' = "loop"
                         /\ UNCHANGED <<inDir, out, creations, resolved, moves, made>>
                    ELSE IF startswith_create_folder(response.text)
                    THEN LET folder_name == requested_folder(response.text)
                             c == create_new_folder(folder_name, out) IN
                         /\ out' = c.out
                         /\ creations' = [creations EXCEPT ![N] = @ + 1]
                         /\ made' = IF c.ret THEN made \cup {folder_name} ELSE made
                         /\ first' = [first EXCEPT
                                        ![N] = IF c.ret THEN "created" ELSE "create_failed"]
                         /\ last' = [op |-> "create", img |-> N, folder |-> folder_name,
                                     ret |-> c.ret, reply |-> <<>>, src |-> TRUE,
                                     cmd |-> TRUE]
                         /\ IF asks_again(response, c.ret)
                            THEN pc' = "second" /\ idx' = idx
                            ELSE pc' = "loop" /\ idx' = idx + 1
                         /\ UNCHANGED <<inDir, resolved, moves>>
                    ELSE /\ Resolve(N, process_model_response(N, response.text, inDir, out),
                                    FALSE)
                         /\ first' = [first EXCEPT ![N] = "resolved"]
                         /\ idx' = idx + 1
                         /\ pc' = "loop"
                         /\ UNCHANGED creations
    /\ UNCHANGED <<apiKey, image_files, ncalls>>

\* the rest of the iteration: the second query and the handling of its reply
SecondQuery ==
    /\ pc = "second"
    /\ LET N == image_files[idx] IN
       /\ calls' = [calls EXCEPT ![N] = @ + 1]
       /\ IF encode_raises(inDir, N)
          THEN /\ pc' = "aborted"
               /\ UNCHANGED <<inDir, out, idx, resolved, moves, prompt, made, last>>
          ELSE /\ prompt' = folder_list(out)
               /\ \E outcome \in ApiOutcomes :
                    LET response == api_response(outcome) IN
                    /\ IF second_reply_accepted(response)
                       THEN Resolve(N, process_model_response(N, response.text, inDir, out),
                                    startswith_create_folder(response.text))
                       ELSE /\ last' = [NoCall EXCEPT
                                          !.op = "invalid", !.img = N,
                                          !.folder = IF truthy(response)
                                                     THEN requested_folder(response.text)
                                                     ELSE <<>>,
                                          !.ret = truthy(response),
                                          !.cmd = truthy(response)]
                            /\ UNCHANGED <<inDir, out, resolved, moves, made>>
                    /\ idx' = idx + 1
                    /\ pc' = "loop"
    /\ UNCHANGED <<apiKey, image_files, creations, first, ncalls>>

\* the loop is over: "Processing complete!"
Finish ==
    /\ pc = "loop"
    /\ idx > Len(image_files)
    /\ pc' = "complete"
    /\ UNCHANGED <<apiKey, inDir, out, image_files, idx, calls, creations, resolved,
                   moves, first, prompt, made, last, ncalls>>

Next == Start \/ FirstQuery \/ SecondQuery \/ Finish

Spec == Init /\ [][Next]_vars

-----------------------------------------------------------------------------
(* The functions called directly, on any input folder and output tree *)

InitFn ==
    /\ InitCommon
    /\ out \in FnTrees
    /\ apiKey = TRUE
    /\ pc = "fn"

FirstCall ==
    /\ pc = "fn"
    /\ ncalls = 0
    /\ ncalls' = 1
    /\ UNCHANGED <<apiKey, pc, image_files, idx, calls, creations, resolved, moves,
                   first, prompt, made>>

CallProcess ==
    /\ FirstCall
    /\ \E N \in Images, R \in RawReplies :
         LET r == process_model_response(N, R, inDir, out) IN
         /\ inDir' = r.inDir
         /\ out' = r.out
         /\ last' = [op |-> "process", img |-> N, folder |-> r.folder, ret |-> r.ret,
                     reply |-> R, src |-> inDir[N] # "absent",
                     cmd |-> startswith_create_folder(R)]

CallCreate ==
    /\ FirstCall
    /\ \E X \in FolderNames :
         LET c == create_new_folder(X, out) IN
         /\ out' = c.out
         /\ last' = [op |-> "create", img |-> <<>>, folder |-> X, ret |-> c.ret,
                     reply |-> <<>>, src |-> FALSE, cmd |-> FALSE]
         /\ UNCHANGED inDir

CallMove ==
    /\ FirstCall
    /\ \E N \in Images, F \in FolderNames :
         LET m == move_image_to_folder(N, F, inDir, out) IN
         /\ inDir' = m.inDir
         /\ out' = m.out
         /\ last' = [op |-> "move", img |-> N, folder |-> F, ret |-> m.ret,
                     reply |-> <<>>, src |-> inDir[N] # "absent", cmd |-> FALSE]

\* the last call made once more, with the same arguments
Repeat ==
    /\ pc = "fn"
    /\ 0 < ncalls
    /\ ncalls < MaxCalls
    /\ ncalls' = ncalls + 1
    /\ IF last.op = "process"
       THEN LET r == process_model_response(last.img, last.reply, inDir, out) IN
            /\ inDir' = r.inDir
            /\ out' = r.out
            /\ last' = [last EXCEPT !.ret = r.ret, !.src = inDir[last.img] # "absent"]
       ELSE IF last.op = "create"
       THEN LET c == create_new_folder(last.folder, out) IN
            /\ out' = c.out
            /\ last' = [last EXCEPT !.ret = c.ret]
            /\ UNCHANGED inDir
       ELSE LET m == move_image_to_folder(last.img, last.folder, inDir, out) IN
            /\ inDir' = m.inDir
            /\ out' = m.out
            /\ last' = [last EXCEPT !.ret = m.ret, !.src = inDir[last.img] # "absent"]
    /\ UNCHANGED <<apiKey, pc, image_files, idx, calls, creations, resolved, moves,
                   first, prompt, made>>

NextFn == CallProcess \/ CallCreate \/ CallMove \/ Repeat

FnSpec == InitFn /\ [][NextFn]_vars

-----------------------------------------------------------------------------
(* Claims about a run of main *)

\* the image of the current iteration
Current == image_files[idx]

\* the places of the output tree that hold the content of the image N
Places(N) == {p \in DOMAIN out : out[p] = FileNode(ImageData(N))}

\* C1: the classifier is invoked at most twice for an image, a second time
\* only when the first reply was a create_folder command whose folder
\* creation succeeded, and main creates at most one folder for an image.
C1_AtMostTwoQueries ==
    \A N \in Images :
        /\ calls[N] <= 2
        /\ creations[N] <= 1
        /\ calls[N] = 2 => first[N] = "created"

C1_Witness ==
    \E N \in Images : calls[N] = 2 /\ first[N] = "created" /\ pc = "complete"

\* C2: when the second reply for an image is a create_folder command too, the
\* image stays at its input path, process_model_response is not called on
\* that reply, the tree is left as it is and the loop goes on to the next image.
C2_SecondCreateRejected ==
    [][(pc = "second" /\ calls' # calls /\ last'.cmd)
         => /\ inDir' = inDir
            /\ inDir'[Current] = "file"
            /\ out' = out
            /\ resolved' = resolved
            /\ moves' = moves
            /\ pc' = "loop"
            /\ idx' = idx + 1]_vars

C2_Witness ==
    /\ last.op = "invalid"
    /\ last.cmd
    /\ last.folder = CATS
    /\ first[last.img] = "created"
    /\ inDir[last.img] = "file"
    /\ resolved[last.img] = 0
    /\ ~exists(out, <<CATS>>)
    /\ pc = "loop"

\* C3: an image is moved at most once in a run; once moved it is gone from
\* the input folder, so that nothing can move it again.
C3_MovedAtMostOnce ==
    \A N \in Images :
        /\ moves[N] <= 1
        /\ moves[N] = 1 => inDir[N] = "absent"

C3_Witness ==
    \E N \in Images : moves[N] = 1 /\ Places(N) # {} /\ pc = "complete"

\* C4: once the credential check has passed no error of one image ends the
\* run: main never stops on an exception.
C4_NeverAborts == pc # "aborted"

\* C8: the folder list of each prompt is the set of directories of the output
\* root when the prompt is built (if there is one), the second prompt for an
\* image holds the folder just created for it, and every prompt holds every
\* folder reported as created earlier in the run.
C8_PromptShowsFolders ==
    [][(calls' # calls /\ pc' # "aborted")
         => /\ get_available_folders(out) # {}
                 => prompt' = get_available_folders(out)
            /\ pc = "second" => last.folder \in prompt'
            /\ made \subseteq prompt']_vars

\* C9: the folder name derived from a reply is never empty: no image is moved
\* into the output root itself, and no creation succeeds on the output root.
C9_FolderNameNotEmpty ==
    /\ (last.op \in {"move", "create"} /\ last.ret) => last.folder # <<>>
    /\ \A N \in Images : <<N>> \notin Places(N)

\* C10: a run destroys no file of the output tree, and at its end every image
\* found by the scan is in one place: in the input folder or in one folder of
\* the output root.
C10_NoFileLost ==
    /\ [][\A p \in DOMAIN out :
            out[p].kind = "file" => (p \in DOMAIN out' /\ out'[p] = out[p])]_vars
    /\ [](pc = "complete" =>
            \A i \in DOMAIN image_files :
                LET N == image_files[i] IN
                \/ inDir[N] # "absent" /\ Places(N) = {}
                \/ /\ inDir[N] = "absent"
                   /\ Cardinality(Places(N)) = 1
                   /\ \A p \in Places(N) : Len(p) = 2 /\ p[2] = N)

-----------------------------------------------------------------------------
(* Claims about the functions *)

\* the text t without the whitespace at its two ends
Trimmed(t) ==
    LET inked == {i \in 1..Len(t) : t[i] # SP} IN
    IF inked = {} THEN <<>>
    ELSE LET a == CHOOSE i \in inked : \A j \in inked : i <= j
             b == CHOOSE i \in inked : \A j \in inked : j <= i
         IN [k \in 1..(b - a + 1) |-> t[a + k - 1]]

\* the text that follows the first colon of t
AfterFirstColon(t) ==
    LET c == CHOOSE i \in 1..Len(t) : t[i] = COLON /\ \A j \in 1..(i - 1) : t[j] # COLON
    IN [k \in 1..(Len(t) - c) |-> t[c + k]]

\* the reply is a create_folder command
IsCommand(t) == Len(t) >= 2 /\ SubSeq(t, 1, 2) = <<"create_folder", COLON>>

\* the folder a reply asks for: what follows its first colon when it has one,
\* the whole reply otherwise, trimmed
AskedFolder(t) ==
    IF \E i \in 1..Len(t) : t[i] = COLON
    THEN Trimmed(AfterFirstColon(t))
    ELSE Trimmed(t)

\* the step is a call of process_model_response
ProcessCall ==
    /\ ncalls' = ncalls + 1
    /\ last'.op = "process"

\* the trees differ at most at the paths of S
SameExceptAt(o1, o2, S) ==
    /\ DOMAIN o1 \ S = DOMAIN o2 \ S
    /\ \A p \in DOMAIN o1 \ S : o1[p] = o2[p]

\* C5 as stated: for a source that exists and a reply that is no command,
\* process_model_response moves the image to output_root/F/N, F the trimmed
\* text after the first colon of the reply or the whole trimmed reply.
C5_MovesToAskedFolder ==
    (last.op = "process" /\ ncalls = 1 /\ last.src /\ last.reply # <<>>
        /\ ~IsCommand(last.reply))
    => LET dest == join(join(ROOT, AskedFolder(last.reply)), last.img) IN
       /\ last.ret
       /\ inDir[last.img] = "absent"
       /\ dest \in DOMAIN out
       /\ out[dest] = FileNode(ImageData(last.img))

\* C5 amended: the same, when output_root/F is no regular file and
\* output_root/F/N is no directory; the rest of the tree is left as it is.
C5_MovesToAskedFolderIfFree ==
    [][LET N == last'.img
           R == last'.reply
           folder == join(ROOT, AskedFolder(R))
           dest == join(folder, N) IN
       (/\ ProcessCall
        /\ inDir[N] # "absent"
        /\ R # <<>>
        /\ ~IsCommand(R)
        /\ ~exists(out, folder) \/ isdir(out, folder)
        /\ ~isdir(out, dest))
       => /\ last'.ret
          /\ inDir' = [inDir EXCEPT ![N] = "absent"]
          /\ dest \in DOMAIN out'
          /\ out'[dest] = FileNode(ImageData(N))
          /\ isdir(out', folder)
          /\ SameExceptAt(out, out', {folder, dest})]_vars

C5_Witness ==
    /\ last.op = "process"
    /\ last.src
    /\ last.ret
    /\ last.reply = <<"other", COLON, SP, "cats", COLON, "dogs">>
    /\ last.folder = <<"cats", COLON, "dogs">>
    /\ <<<<"cats", COLON, "dogs">>, last.img>> \in DOMAIN out
    /\ inDir[last.img] = "absent"

\* the call c is a call of the creation path: create_new_folder, or
\* process_model_response with a create_folder command
IsCreation(c) == c.op = "create" \/ (c.op = "process" /\ IsCommand(c.reply))

\* the folder name a call of the creation path is made for
CreationName(c) ==
    IF c.op = "create" THEN c.folder ELSE Trimmed(AfterFirstColon(c.reply))

\* C6 as stated: the creation path for a name X that is not empty reports
\* success and leaves a folder X under the output root.
C6_CreationSucceeds ==
    (ncalls >= 1 /\ IsCreation(last) /\ CreationName(last) # <<>>)
    => last.ret /\ isdir(out, <<CreationName(last)>>)

\* C6 amended: when no regular file named X is under the output root, the
\* creation path reports success, leaves a folder X, moves no image and,
\* repeated, reports success again and changes nothing.
C6_CreationIdempotent ==
    [][(/\ ncalls' = ncalls + 1
        /\ IsCreation(last')
        /\ CreationName(last') # <<>>
        /\ ~exists(out, <<CreationName(last')>>) \/ isdir(out, <<CreationName(last')>>))
       => LET X == CreationName(last') IN
          /\ last'.ret
          /\ isdir(out', <<X>>)
          /\ inDir' = inDir
          /\ SameExceptAt(out, out', {<<X>>})
          /\ isdir(out, <<X>>) => out' = out
          /\ ncalls >= 1 => out' = out]_vars

C6_Witness ==
    /\ ncalls >= 2
    /\ last.op = "process"
    /\ last.reply = <<"create_folder", COLON, SP, "cats">>
    /\ last.ret
    /\ isdir(out, <<CATS>>)
    /\ inDir[last.img] # "absent"

\* C7: move_image_to_folder called for a source that does not exist returns
\* failure and leaves the output tree as it is.
C7_MissingSourceNoEffect ==
    [][(/\ ncalls' = ncalls + 1
        /\ last'.op = "move"
        /\ inDir[last'.img] = "absent")
       => /\ ~last'.ret
          /\ out' = out
          /\ inDir' = inDir]_vars

C7_Witness ==
    /\ last.op = "move"
    /\ ~last.src
    /\ ~last.ret
    /\ last.folder = CATS
    /\ ~exists(out, <<CATS>>)

====
